---------------------------- MODULE Spec2Model ----------------------------
(***************************************************************************)
(* A model of google_geocoding (src/src/lib.rs, src/src/serde_util.rs):    *)
(* the query encoders, the reply decoder, the request pipeline of          *)
(* Connection::get and the blocking functions geocode and degeocode.       *)
(*                                                                         *)
(* Option<T> is a sequence of length 0 (None) or 1 (Some).  A Result is a  *)
(* record with an `ok` field.  A panic (unwrap on Err, stack exhaustion)   *)
(* puts the calling pipeline in the state "aborted".                       *)
(***************************************************************************)
EXTENDS Integers, Sequences, FiniteSets, TLC

(***************************************************************************)
(* Bounds of the model.                                                    *)
(***************************************************************************)
\* Number of pipelines that may be open on one Connection at the same time.
NumPipes == 2
\* Number of calls of the blocking functions one caller makes.
MaxCalls == 2
\* Number of stack frames a thread has for nested calls of serialize.
StackFrames == 3
\* Number of setter calls in one builder chain.
MaxWrites == 3
\* Length of a wire list of tags.
MaxLen == 3

Pipes == 1..NumPipes

None == <<>>
Some(x) == <<x>>

(***************************************************************************)
(* Wire catalogs: the serde labels of the tagged types.  Language, Region  *)
(* and Type are long static catalogs; the model keeps a few cases of each. *)
(***************************************************************************)
StatusCode ==
    [Ok |-> "OK", ZeroResults |-> "ZERO_RESULTS",
     OverQueryLimit |-> "OVER_QUERY_LIMIT", RequestDenied |-> "REQUEST_DENIED",
     InvalidRequest |-> "INVALID_REQUEST", UnknownError |-> "UNKNOWN_ERROR"]

LocationType ==
    [Rooftop |-> "ROOFTOP", RangeInterpolated |-> "RANGE_INTERPOLATED",
     GeometricCenter |-> "GEOMETRIC_CENTER", Approximate |-> "APPROXIMATE"]

Type ==
    [Route |-> "route", Country |-> "country", Locality |-> "locality",
     PostalCode |-> "postal_code"]

Language == [English |-> "en", PortugueseBrazil |-> "pt-BR"]

Region ==
    [Canada |-> ".ca", DemocraticPeoplesRepublicOfKorea |-> ".kp",
     RepublicOfKorea |-> ".kp", UnitedStates |-> ".us"]

\* The label table of a derive(Serialize) enum, by the enum's name.
LabelsOf(enum) ==
    CASE enum = "StatusCode" -> StatusCode
      [] enum = "LocationType" -> LocationType
      [] enum = "Type" -> Type
      [] enum = "Language" -> Language
      [] enum = "Region" -> Region

\* A value of a tagged type: the enum it belongs to, its case, its payload.
Variant(enum, case) == [enum |-> enum, case |-> case, payload |-> ""]
Rule(case, value) == [enum |-> "ComponentFilterRule", case |-> case, payload |-> value]

(***************************************************************************)
(* Serialize::serialize(value, serializer), by the impl of the value's     *)
(* type and the serializer it is handed: "VariantName" (serde_util) or     *)
(* "urlencoded".  A derive(Serialize) enum hands its label to              *)
(* serialize_unit_variant, which answers Ok(label) in both serializers.    *)
(* ComponentFilterRule has a hand-written impl: it formats                 *)
(* "{}:{}" of variant_name(self) and the payload, and then calls           *)
(* serialize_str, which VariantName answers with Err(NotEnum).             *)
(* variant_name(self) is self.serialize(VariantName).unwrap(): the impl    *)
(* enters itself before it has called the serializer, one stack frame      *)
(* deeper each time, until the stack is exhausted and the process aborts.  *)
(* res is "ok", "err" or "abort"; `frames` is the stack that is left.      *)
(***************************************************************************)
\* The method of the Serializer that the Serialize impl of t's type calls.
SerializerMethod(t) ==
    IF t.enum = "ComponentFilterRule" THEN "serialize_str"
    ELSE "serialize_unit_variant"

\* The methods that the serializer VariantName answers with Ok(variant);
\* every other method answers Err(NotEnum).
VariantMethods ==
    {"serialize_unit_variant", "serialize_newtype_variant",
     "serialize_tuple_variant", "serialize_struct_variant"}

\* What a serializer answers the method with, handed the text `str`.
Answer(serializer, method, str) ==
    IF serializer = "VariantName" /\ method \notin VariantMethods
    THEN [res |-> "err", str |-> ""]
    ELSE [res |-> "ok", str |-> str]

RECURSIVE serialize(_, _, _)
serialize(t, serializer, frames) ==
    IF frames = 0 THEN [res |-> "abort", str |-> ""]
    ELSE IF t.enum = "ComponentFilterRule"
    THEN LET name == serialize(t, "VariantName", frames - 1)
         IN  IF name.res # "ok" THEN [res |-> "abort", str |-> ""]
             ELSE Answer(serializer, SerializerMethod(t),
                         name.str \o ":" \o t.payload)
    ELSE Answer(serializer, SerializerMethod(t), LabelsOf(t.enum)[t.case])

\* serde_util::variant_name: t.serialize(VariantName).unwrap()
variant_name(t) ==
    LET r == serialize(t, "VariantName", StackFrames)
    IN  [ok |-> r.res = "ok", name |-> r.str]

\* impl Serialize for ComponentFilterRule, handed the query string's
\* serializer.
ComponentFilterRule_serialize(rule) == serialize(rule, "urlencoded", StackFrames)

RECURSIVE JoinPipe(_)
JoinPipe(names) ==
    IF names = <<>> THEN ""
    ELSE IF Len(names) = 1 THEN names[1]
    ELSE names[1] \o "|" \o JoinPipe(Tail(names))

(***************************************************************************)
(* impl Serialize for ApiSet: the elements in the set's iteration order    *)
(* (the sequence `s`), each through variant_name, joined by "|".           *)
(***************************************************************************)
ApiSet_serialize(s) ==
    LET names == [i \in 1..Len(s) |-> variant_name(s[i])]
    IN  IF \E i \in 1..Len(s) : ~names[i].ok
        THEN [ok |-> FALSE, str |-> ""]
        ELSE [ok |-> TRUE, str |-> JoinPipe([i \in 1..Len(s) |-> names[i].name])]

(***************************************************************************)
(* Coordinates: a WGS84 position.  WGS84::try_new refuses a latitude       *)
(* outside [-90, 90] and a longitude outside [-180, 180].                  *)
(***************************************************************************)
\* WGS84_try_new that moves a number outside its range to the nearest edge.
WGS84_try_new_clamped(lat, lon) ==
    Some([latitude |-> IF lat > 90 THEN 90 ELSE IF lat < -90 THEN -90 ELSE lat,
          longitude |-> IF lon > 180 THEN 180 ELSE IF lon < -180 THEN -180 ELSE lon])

WGS84_try_new(lat, lon) ==
    IF lat >= -90 /\ lat <= 90 /\ lon >= -180 /\ lon <= 180
    THEN Some([latitude |-> lat, longitude |-> lon])
    ELSE None

\* Coordinates_fmt with the two numbers in the other order.
Coordinates_fmt_lonlat(c) == ToString(c.longitude) \o "," \o ToString(c.latitude)

\* impl Display for Coordinates: "{},{}" of latitude and longitude.
Coordinates_fmt(c) == ToString(c.latitude) \o "," \o ToString(c.longitude)


(***************************************************************************)
(* The query model.  A Place is an address or a set of component filter    *)
(* rules (an ApiSet, held here in its iteration order).                    *)
(***************************************************************************)
Place_Address(a) == [variant |-> "Address", address |-> a, components |-> <<>>]
Place_ComponentFilter(rules) ==
    [variant |-> "ComponentFilter", address |-> "", components |-> rules]

\* GeocodeQuery::new
GeocodeQuery_new(filter) ==
    [kind |-> "geocode", filter |-> Some(filter), bounds |-> None,
     language |-> None, region |-> None,
     coordinates |-> None, result_type |-> None, location_type |-> None]

\* DegeocodeQuery::new
DegeocodeQuery_new(coordinates) ==
    [kind |-> "degeocode", filter |-> None, bounds |-> None,
     language |-> None, region |-> None,
     coordinates |-> Some(coordinates), result_type |-> None,
     location_type |-> None]

\* GeocodeQuery::bounds, ::language, ::region; DegeocodeQuery::language,
\* ::location_type, ::result_type.
GeocodeQuery_bounds(q, i_bounds) == [q EXCEPT !.bounds = Some(i_bounds)]
Query_language(q, i_language) == [q EXCEPT !.language = Some(i_language)]
\* GeocodeQuery_region that starts again from the locator.
GeocodeQuery_region_afresh(q, i_region) ==
    [GeocodeQuery_new(q.filter[1]) EXCEPT !.region = Some(i_region)]
GeocodeQuery_region(q, i_region) == [q EXCEPT !.region = Some(i_region)]
DegeocodeQuery_location_type(q, i_location_type) ==
    [q EXCEPT !.location_type = Some(i_location_type)]
DegeocodeQuery_result_type(q, i_result_type) ==
    [q EXCEPT !.result_type = Some(i_result_type)]

Viewport(ne, sw) == [northeast |-> ne, southwest |-> sw]

(***************************************************************************)
(* serde_urlencoded::to_string of a query: the key=value pairs in the      *)
(* order of the struct's fields.  A field that is None gives no pair.  A   *)
(* value must be a string, a number or a unit variant: a struct as a value *)
(* (a Viewport) is refused with Err("unsupported value").  res is "ok",    *)
(* "err" (to_string returned Err) or "abort" (a Serialize impl never       *)
(* returned).                                                              *)
(***************************************************************************)
Pairs(ps) == [res |-> "ok", pairs |-> ps]
NoPairs(r) == [res |-> r, pairs |-> <<>>]

\* #[serde(untagged)] enum Place, flattened into the query's map.
Place_serialize(place) ==
    IF place.variant = "Address"
    THEN Pairs(<< <<"address", place.address>> >>)
    ELSE LET s == ApiSet_serialize(place.components)
         IN  IF s.ok THEN Pairs(<< <<"components", s.str>> >>)
             ELSE NoPairs("abort")

\* A field of type Option<enum with unit variants>.
UnitField(key, enum, opt) ==
    IF opt = None THEN Pairs(<<>>)
    ELSE Pairs(<< <<key, LabelsOf(enum)[opt[1]]>> >>)

\* A field of type Option<ApiSet<T>>.
ApiSetField(key, opt) ==
    IF opt = None THEN Pairs(<<>>)
    ELSE LET s == ApiSet_serialize(opt[1])
         IN  IF s.ok THEN Pairs(<< <<key, s.str>> >>) ELSE NoPairs("abort")

\* A field of type Option<Viewport>.
ViewportField(key, opt) ==
    IF opt = None THEN Pairs(<<>>) ELSE NoPairs("err")

\* The fields one after the other; the first that fails ends the encoding.
RECURSIVE Chain(_)
Chain(fields) ==
    IF fields = <<>> THEN Pairs(<<>>)
    ELSE IF fields[1].res # "ok" THEN NoPairs(fields[1].res)
    ELSE LET rest == Chain(Tail(fields))
         IN  IF rest.res # "ok" THEN NoPairs(rest.res)
             ELSE Pairs(fields[1].pairs \o rest.pairs)

\* derive(Serialize) for GeocodeQuery: filter (flattened), bounds, language,
\* region.
GeocodeQuery_serialize(q) ==
    Chain(<< Place_serialize(q.filter[1]),
             ViewportField("bounds", q.bounds),
             UnitField("language", "Language", q.language),
             UnitField("region", "Region", q.region) >>)

\* DegeocodeQuery_serialize without #[serde(rename="latlng")].
DegeocodeQuery_serialize_unrenamed(q) ==
    Chain(<< Pairs(<< <<"coordinates", Coordinates_fmt(q.coordinates[1])>> >>),
             UnitField("language", "Language", q.language),
             ApiSetField("result_type", q.result_type),
             ApiSetField("location_type", q.location_type) >>)

\* derive(Serialize) for DegeocodeQuery: latlng, language, result_type,
\* location_type.
DegeocodeQuery_serialize(q) ==
    Chain(<< Pairs(<< <<"latlng", Coordinates_fmt(q.coordinates[1])>> >>),
             UnitField("language", "Language", q.language),
             ApiSetField("result_type", q.result_type),
             ApiSetField("location_type", q.location_type) >>)

to_string(i_params) ==
    IF i_params.kind = "geocode" THEN GeocodeQuery_serialize(i_params)
    ELSE DegeocodeQuery_serialize(i_params)

(***************************************************************************)
(* The reply.  A body is what the transport hands over: JSON that parses   *)
(* (wellformed) or not.  serde_json::from_slice::<ReplyResult> fails on a  *)
(* status, location_type or type outside its catalog and on a location     *)
(* or a corner of a viewport that WGS84::try_new refuses.  Of a Reply the  *)
(* model keeps the formatted_address, the geometry and the types.          *)
(***************************************************************************)
HasLabel(table, label) == \E c \in DOMAIN table : table[c] = label
CaseOf(table, label) == CHOOSE c \in DOMAIN table : table[c] = label

\* The injective sequences over a finite set: the orders in which a HashSet
\* of these elements may be iterated.
Orders(S) ==
    {o \in [1..Cardinality(S) -> S] :
        \A i, j \in 1..Cardinality(S) : o[i] = o[j] => i = j}

\* impl Deserialize for ApiSet that keeps the Vec as it was decoded.
ApiSet_deserialize_vec(enum, list) ==
    IF \A i \in 1..Len(list) : HasLabel(LabelsOf(enum), list[i])
    THEN [ok |-> TRUE,
          orders |-> {[i \in 1..Len(list) |->
                          Variant(enum, CaseOf(LabelsOf(enum), list[i]))]}]
    ELSE [ok |-> FALSE, orders |-> {}]

\* impl Deserialize for ApiSet: Vec::<T>::deserialize, which fails on a
\* label outside T's catalog, then .into_iter().collect() into a HashSet.
\* `orders` are the iteration orders the set may have.
ApiSet_deserialize(enum, list) ==
    IF \A i \in 1..Len(list) : HasLabel(LabelsOf(enum), list[i])
    THEN [ok |-> TRUE,
          orders |-> Orders({Variant(enum, CaseOf(LabelsOf(enum), list[i])) :
                               i \in 1..Len(list)})]
    ELSE [ok |-> FALSE, orders |-> {}]

\* Coordinates_deserialize that takes the two numbers as they come.
Coordinates_deserialize_unchecked(loc) ==
    [ok |-> TRUE, val |-> [latitude |-> loc.lat, longitude |-> loc.lng]]

\* impl Deserialize for Coordinates
Coordinates_deserialize(loc) ==
    LET w == WGS84_try_new(loc.lat, loc.lng)
    IN  IF w = None THEN [ok |-> FALSE, val |-> [latitude |-> 0, longitude |-> 0]]
        ELSE [ok |-> TRUE, val |-> w[1]]

\* derive(Deserialize) for Viewport: northeast, southwest
Viewport_deserialize(v) ==
    LET ne == Coordinates_deserialize(v.northeast)
        sw == Coordinates_deserialize(v.southwest)
    IN  [ok |-> ne.ok /\ sw.ok, val |-> Viewport(ne.val, sw.val)]

\* derive(Deserialize) for Reply (with Geometry)
Reply_ok(r) ==
    /\ Coordinates_deserialize(r.geometry.location).ok
    /\ Viewport_deserialize(r.geometry.viewport).ok
    /\ r.geometry.bounds # None => Viewport_deserialize(r.geometry.bounds[1]).ok
    /\ \A k \in 1..Len(r.address_components) :
          \A i \in 1..Len(r.address_components[k].types) :
              HasLabel(Type, r.address_components[k].types[i])
    /\ HasLabel(LocationType, r.geometry.location_type)
    /\ \A i \in 1..Len(r.types) : HasLabel(Type, r.types[i])

\* derive(Deserialize) for AddressComponent: types is a Vec<Type>
AddressComponent_deserialize(c) ==
    [long_name |-> c.long_name, short_name |-> c.short_name,
     types |-> [i \in 1..Len(c.types) |-> CaseOf(Type, c.types[i])]]

\* derive(Deserialize) for Reply: types is a Vec<Type>
Reply_deserialize(r) ==
    [address_components |->
        [k \in 1..Len(r.address_components) |->
            AddressComponent_deserialize(r.address_components[k])],
     formatted_address |-> r.formatted_address,
     geometry |->
        [location |-> Coordinates_deserialize(r.geometry.location).val,
         location_type |-> CaseOf(LocationType, r.geometry.location_type),
         viewport |-> Viewport_deserialize(r.geometry.viewport).val,
         bounds |-> IF r.geometry.bounds = None THEN None
                    ELSE Some(Viewport_deserialize(r.geometry.bounds[1]).val)],
     types |-> [i \in 1..Len(r.types) |-> CaseOf(Type, r.types[i])]]

\* from_slice that drops what it does not know: a result with a tag outside
\* a catalog is left out, a status outside the catalog is UNKNOWN_ERROR.
from_slice_open(body) ==
    IF body.wellformed
    THEN [ok |-> TRUE,
          reply |-> [error_message |-> body.error_message,
                     results |-> [i \in 1..Len(SelectSeq(body.results, Reply_ok)) |->
                                     Reply_deserialize(SelectSeq(body.results, Reply_ok)[i])],
                     status |-> IF HasLabel(StatusCode, body.status)
                                THEN CaseOf(StatusCode, body.status)
                                ELSE "UnknownError"]]
    ELSE [ok |-> FALSE,
          reply |-> [error_message |-> None, results |-> <<>>, status |-> ""]]

\* derive(Deserialize) for ReplyResult, through serde_json::from_slice
from_slice(body) ==
    IF /\ body.wellformed
       /\ HasLabel(StatusCode, body.status)
       /\ \A i \in 1..Len(body.results) : Reply_ok(body.results[i])
    THEN [ok |-> TRUE,
          reply |-> [error_message |-> body.error_message,
                     results |-> [i \in 1..Len(body.results) |->
                                     Reply_deserialize(body.results[i])],
                     status |-> CaseOf(StatusCode, body.status)]]
    ELSE [ok |-> FALSE,
          reply |-> [error_message |-> None, results |-> <<>>, status |-> ""]]

(***************************************************************************)
(* What a pipeline resolves with: Ok(Vec<Reply>) or Err(failure::Error).   *)
(* The Error wraps a reqwest error (class "transport"), a serde_json error *)
(* (class "decode") or a StatusCode (class "status", with the case).       *)
(* StatusCode is an enum without fields: an Error made from it holds the   *)
(* case and nothing else, so `message` is None.                            *)
(***************************************************************************)
Pending ==
    [kind |-> "pending", results |-> <<>>, class |-> "", code |-> "",
     message |-> None]
ResultOk(results) ==
    [kind |-> "ok", results |-> results, class |-> "", code |-> "",
     message |-> None]
ResultErr(class, code) ==
    [kind |-> "err", results |-> <<>>, class |-> class, code |-> code,
     message |-> None]

\* Classify that takes a reply with results for a success, whatever its status.
ClassifyByResults(reply) ==
    IF reply.status = "Ok" \/ reply.results # <<>> THEN ResultOk(reply.results)
    ELSE ResultErr("status", reply.status)

\* Classify that hands on the best match only.
ClassifyFirstOnly(reply) ==
    IF reply.status = "Ok"
    THEN ResultOk(IF reply.results = <<>> THEN <<>> ELSE <<reply.results[1]>>)
    ELSE ResultErr("status", reply.status)

\* The last closure of Connection::get: the match on the decoded reply.
Classify(reply) ==
    IF reply.status = "Ok" THEN ResultOk(reply.results)
    ELSE ResultErr("status", reply.status)

(***************************************************************************)
(* The blocking functions hand the caller Ok(iterator) or Err(error).      *)
(***************************************************************************)
NoRet == [kind |-> "none", items |-> <<>>, class |-> "", code |-> ""]
RetOk(items) == [kind |-> "ok", items |-> items, class |-> "", code |-> ""]
RetErr(class, code) == [kind |-> "err", items |-> <<>>, class |-> class, code |-> code]

\* geocode_map that yields the last result first.
geocode_map_reversed(results) ==
    [i \in 1..Len(results) |-> results[Len(results) + 1 - i].geometry.location]

\* .into_iter().map(|x| x.geometry.location) of geocode
geocode_map(results) == [i \in 1..Len(results) |-> results[i].geometry.location]

\* .into_iter().map(|x| x.formatted_address) of degeocode
degeocode_map(results) == [i \in 1..Len(results) |-> results[i].formatted_address]

\* run_and_map without the `?`: a failed pipeline gives an empty sequence.
run_and_map_lenient(fn, result) ==
    IF fn = "geocode" THEN RetOk(geocode_map(result.results))
    ELSE RetOk(degeocode_map(result.results))

\* Ok(core.run(future)?.into_iter().map(..)) of geocode and degeocode
run_and_map(fn, result) ==
    IF result.kind = "err" THEN RetErr(result.class, result.code)
    ELSE IF fn = "geocode" THEN RetOk(geocode_map(result.results))
    ELSE RetOk(degeocode_map(result.results))

(***************************************************************************)
(* The inputs of the model.                                                *)
(***************************************************************************)
Address1 == "1600 Amphitheatre Pkwy"
Address2 == "Sydney Opera House"
Address3 == "Nowhere"

Coord(lat, lon) == WGS84_try_new(lat, lon)[1]

EnglishCanada ==
    Query_language(GeocodeQuery_region(
        GeocodeQuery_new(Place_Address(Address1)), "Canada"), "English")

\* Queries for Connection::geocode and geocode.
GeocodeQueries ==
    {GeocodeQuery_new(Place_Address(a)) : a \in {Address1, Address2, Address3}}
    \cup {Query_language(GeocodeQuery_new(Place_Address(Address1)), "PortugueseBrazil"),
          GeocodeQuery_region(GeocodeQuery_new(Place_Address(Address2)), "UnitedStates"),
          EnglishCanada,
          GeocodeQuery_bounds(GeocodeQuery_new(Place_Address(Address1)),
                              Viewport(Coord(38, -121), Coord(37, -123))),
          GeocodeQuery_new(Place_ComponentFilter(<<Rule("Country", "US")>>)),
          GeocodeQuery_new(Place_ComponentFilter(
              <<Rule("PostalCode", "94043"), Rule("Country", "US")>>))}

\* Queries for Connection::degeocode and degeocode.
DegeocodeQueries ==
    {DegeocodeQuery_new(c) : c \in {Coord(37, -122), Coord(-33, 151), Coord(0, 0)}}
    \cup {Query_language(DegeocodeQuery_new(Coord(37, -122)), "English"),
          DegeocodeQuery_result_type(DegeocodeQuery_new(Coord(37, -122)),
              <<Variant("Type", "Country"), Variant("Type", "Locality")>>),
          DegeocodeQuery_location_type(
              DegeocodeQuery_result_type(DegeocodeQuery_new(Coord(-33, 151)),
                  <<Variant("Type", "Route")>>),
              <<Variant("LocationType", "Rooftop")>>)}

\* The numbers a caller constructs positions from: inside, on the edge of
\* and outside the range of degrees.
Latitudes == {37, 90, 91}
Longitudes == {-122, -180, 181}

\* A viewport of a reply body, as JSON.
JsonViewport(north, east, south, west) ==
    [northeast |-> [lat |-> north, lng |-> east],
     southwest |-> [lat |-> south, lng |-> west]]

\* One address component of a result, as JSON.
JsonComponent(long_name, short_name, types) ==
    [long_name |-> long_name, short_name |-> short_name, types |-> types]

\* One result of a reply body, as JSON; its viewport is the whole globe and
\* it has no bounds and no address components.
JsonResult(addr, lat, lng, location_type, types) ==
    [address_components |-> <<>>,
     formatted_address |-> addr,
     geometry |-> [location |-> [lat |-> lat, lng |-> lng],
                   location_type |-> location_type,
                   viewport |-> JsonViewport(90, 180, -90, -180),
                   bounds |-> None],
     types |-> types]

Result1 == JsonResult(Address1, 37, -122, "ROOFTOP", <<"route">>)
Result2 == JsonResult(Address2, -33, 151, "APPROXIMATE", <<"locality", "country">>)
ResultOffGlobe == JsonResult(Address3, 91, 0, "ROOFTOP", <<>>)
ResultBadViewport ==
    [Result1 EXCEPT !.geometry.viewport = JsonViewport(38, -121, -91, -123)]
ResultBadBounds ==
    [Result2 EXCEPT !.geometry.bounds = Some(JsonViewport(-32, 181, -34, 150))]
\* Results in which a type tag occurs twice: in the result's own types, and
\* in the types of an address component.
ResultTagTwice == JsonResult(Address1, 37, -122, "ROOFTOP", <<"route", "country", "route">>)
ResultComponentTagTwice ==
    [Result2 EXCEPT !.address_components =
        <<JsonComponent("Australia", "AU", <<"country", "country">>)>>]
\* Results with a tag outside its catalog.
ResultBadLocationType == JsonResult(Address1, 37, -122, "EXACT", <<"route">>)
ResultBadType == JsonResult(Address1, 37, -122, "ROOFTOP", <<"route", "planet">>)
ResultBadComponentType ==
    [Result2 EXCEPT !.address_components =
        <<JsonComponent("Australia", "AU", <<"continent">>)>>]
ResultWithBounds ==
    [Result2 EXCEPT !.geometry.bounds = Some(JsonViewport(-32, 152, -34, 150))]

\* A reply body: JSON with the three fields of ReplyResult, or not JSON.
Json(status, error_message, results) ==
    [wellformed |-> TRUE, status |-> status, error_message |-> error_message,
     results |-> results]
NotJson ==
    [wellformed |-> FALSE, status |-> "", error_message |-> None, results |-> <<>>]

Bodies ==
    {NotJson}
    \cup {Json(st, m, rs) :
            st \in {StatusCode[c] : c \in DOMAIN StatusCode} \cup {"NOT_FOUND"},
            m \in {None, Some("quota exceeded")},
            rs \in {<<>>, <<Result1>>, <<Result1, Result2>>, <<Result2, Result1>>}}
    \cup {Json("OK", None, rs) :
            rs \in {<<Result1, ResultOffGlobe>>, <<Result1, ResultBadViewport>>,
                    <<ResultBadBounds>>, <<ResultWithBounds>>,
                    <<ResultTagTwice>>, <<ResultComponentTagTwice>>,
                    <<ResultBadLocationType>>, <<Result1, ResultBadType>>,
                    <<ResultBadComponentType>>}}
    \cup {Json("OVER_QUERY_LIMIT", None, <<Result1, ResultBadType>>)}

\* The few bodies of the pipelines that run side by side.
FewBodies ==
    {NotJson, Json("OK", None, <<Result1>>), Json("OK", None, <<Result2, Result1>>),
     Json("ZERO_RESULTS", None, <<>>),
     Json("OVER_QUERY_LIMIT", Some("quota exceeded"), <<>>)}

\* What the transport delivers for one GET: an error of send(), an error
\* while the body is read, or the whole body.
Delivery(kind, b) == [kind |-> kind, body |-> b]
Deliveries(bodies) ==
    {Delivery("send_error", NotJson), Delivery("body_error", NotJson)}
    \cup {Delivery("body", b) : b \in bodies}

(***************************************************************************)
(* The geocoding service of the end-to-end test: it knows two places, and  *)
(* answers a forward query for a known address and a reverse query for a   *)
(* known position with the place, anything else with ZERO_RESULTS.         *)
(***************************************************************************)
ServiceForward == (Address1 :> Result1) @@ (Address2 :> Result2)
ServiceReverse == ("37,-122" :> Result1) @@ ("-33,151" :> Result2)

Service(u) ==
    LET first == u.query[1]
    IN  IF first[1] = "address" /\ first[2] \in DOMAIN ServiceForward
        THEN Json("OK", None, <<ServiceForward[first[2]]>>)
        ELSE IF first[1] = "latlng" /\ first[2] \in DOMAIN ServiceReverse
        THEN Json("OK", None, <<ServiceReverse[first[2]]>>)
        ELSE Json("ZERO_RESULTS", None, <<>>)

(***************************************************************************)
(* The state.                                                              *)
(***************************************************************************)
VARIABLES
    connection, \* the Connection: its reqwest Client
    pc,         \* pc[p]: where pipeline p is
    query,      \* query[p]: the ApiQuery handed to get
    url,        \* url[p]: url_full
    net,        \* net[p]: what the transport has delivered for p's GET
    body,       \* body[p]: the body concat2 handed on
    reply,      \* reply[p]: the decoded ReplyResult
    outcome,    \* outcome[p]: what the future resolved with
    gets,       \* gets[p]: the GETs pipeline p has issued
    sent,       \* the GETs the network has seen
    conv,       \* conv[p]: the blocking function that runs p, or "none"
    calls,      \* the calls of the blocking functions so far
    last,       \* the last call of a blocking function that returned
    origin,     \* the call whose result is the argument of the running call
    made,       \* the last construction of a WGS84 position by the caller
    draft,      \* the query a builder chain holds
    writes,     \* the setter calls of the chain so far: <<field, value>>
    encoded,    \* the last value an encoder was applied to, with the result
    tags        \* the last wire list decoded into an ApiSet, with the set

pipeline == <<pc, query, url, net, body, reply, outcome, gets>>
caller == <<conv, calls, last, origin>>
builder == <<draft, writes, encoded, tags>>
vars == <<connection, pc, query, url, net, body, reply, outcome, gets, sent,
          conv, calls, last, origin, made, draft, writes, encoded, tags>>

Connection_URL == "https://maps.google.com/maps/api/geocode/json"

\* Connection::new
Connection_new == [client |-> "Client"]

NoCall ==
    [fn |-> "none", query |-> None, url |-> None, net |-> None,
     outcome |-> Pending, ret |-> NoRet, origin |-> None]

\* The caller has constructed no position.
NoMade ==
    [ctor |-> "none", lat |-> 0, lon |-> 0, res |-> "none", val |-> None,
     sent |-> 0]

Init ==
    /\ connection = Connection_new
    /\ pc = [p \in Pipes |-> "idle"]
    /\ query = [p \in Pipes |-> None]
    /\ url = [p \in Pipes |-> None]
    /\ net = [p \in Pipes |-> None]
    /\ body = [p \in Pipes |-> None]
    /\ reply = [p \in Pipes |-> None]
    /\ outcome = [p \in Pipes |-> Pending]
    /\ gets = [p \in Pipes |-> 0]
    /\ sent = 0
    /\ conv = [p \in Pipes |-> "none"]
    /\ calls = 0
    /\ last = NoCall
    /\ origin = None
    /\ made = NoMade
    /\ draft = None
    /\ writes = <<>>
    /\ encoded = None
    /\ tags = None

(***************************************************************************)
(* Connection::get.  The URL is built when get is called: url_full is      *)
(* Connection::URL with the query string of to_string(i_params).unwrap(),  *)
(* and the unwrap panics when to_string fails.  The future get returns     *)
(* does the rest, one step per combinator.                                 *)
(***************************************************************************)
get(p, i_params) ==
    LET s == to_string(i_params)
    IN  /\ query' = [query EXCEPT ![p] = Some(i_params)]
        /\ IF s.res = "ok"
           THEN /\ pc' = [pc EXCEPT ![p] = "built"]
                /\ url' = [url EXCEPT ![p] =
                              Some([base |-> Connection_URL, query |-> s.pairs])]
           ELSE /\ pc' = [pc EXCEPT ![p] = "aborted"]
                /\ url' = url
        /\ UNCHANGED <<net, body, reply, outcome, gets, sent>>

\* Connection::geocode
Connection_geocode(p, address) ==
    /\ pc[p] = "idle"
    /\ get(p, address)
    /\ UNCHANGED <<connection, conv, calls, last, origin, made>>
    /\ UNCHANGED builder

\* Connection::degeocode
Connection_degeocode(p, coordinates) ==
    /\ pc[p] = "idle"
    /\ get(p, coordinates)
    /\ UNCHANGED <<connection, conv, calls, last, origin, made>>
    /\ UNCHANGED builder

\* The GETs that self.client.get(url_full).send() issues: one, whatever
\* the other pipelines are doing.
GetsIssued(p) == 1

\* self.client.get(url_full).send()
send(p) ==
    /\ pc[p] = "built"
    /\ pc' = [pc EXCEPT ![p] = "in_flight"]
    /\ gets' = [gets EXCEPT ![p] = @ + GetsIssued(p)]
    /\ sent' = sent + GetsIssued(p)
    /\ UNCHANGED <<connection, query, url, net, body, reply, outcome>>
    /\ UNCHANGED <<caller, made, builder>>

\* The transport delivers d for the GET of pipeline p.
respond(p, d) ==
    /\ pc[p] = "in_flight"
    /\ net[p] = None
    /\ net' = [net EXCEPT ![p] = Some(d)]
    /\ UNCHANGED <<connection, pc, query, url, body, reply, outcome, gets, sent>>
    /\ UNCHANGED <<caller, made, builder>>

\* Incoming through one buffer shared by the pipelines of the Connection:
\* the delivery of the first pipeline that has one.
IncomingShared(p) ==
    net[CHOOSE r \in Pipes : net[r] # None /\ \A o \in Pipes : net[o] # None => r <= o][1]

\* What the future of pipeline p is woken with: the delivery for its own GET.
Incoming(p) == net[p][1]

\* map_err that sends the request once more.
map_err_retry(p) == [pc |-> "in_flight", gets |-> gets[p] + 1, sent |-> sent + 1]

\* .map_err(Error::from) after send() and after concat2(): the pipeline
\* resolves with the transport's error and does nothing more.
map_err(p) == [pc |-> "resolved", gets |-> gets[p], sent |-> sent]

\* concat2 that swallows an error of the transport and goes on waiting.
concat2_wait(p) ==
    /\ pc[p] = "in_flight"
    /\ net[p] # None
    /\ Incoming(p).kind = "body"
    /\ pc' = [pc EXCEPT ![p] = "aggregated"]
    /\ body' = [body EXCEPT ![p] = Some(Incoming(p).body)]
    /\ UNCHANGED <<connection, query, url, net, reply, outcome, gets, sent>>
    /\ UNCHANGED <<caller, made, builder>>

\* .and_then(move |res| res.into_body().concat2().map_err(Error::from))
concat2(p) ==
    /\ pc[p] = "in_flight"
    /\ net[p] # None
    /\ IF Incoming(p).kind = "body"
       THEN /\ pc' = [pc EXCEPT ![p] = "aggregated"]
            /\ body' = [body EXCEPT ![p] = Some(Incoming(p).body)]
            /\ UNCHANGED <<outcome, gets, sent>>
       ELSE /\ pc' = [pc EXCEPT ![p] = map_err(p).pc]
            /\ gets' = [gets EXCEPT ![p] = map_err(p).gets]
            /\ sent' = map_err(p).sent
            /\ outcome' = [outcome EXCEPT ![p] = ResultErr("transport", "")]
            /\ body' = body
    /\ UNCHANGED <<connection, query, url, net, reply>>
    /\ UNCHANGED <<caller, made, builder>>

\* decode that hands on whatever from_slice left, failed or not.
decode_lenient(p) ==
    /\ pc[p] = "aggregated"
    /\ pc' = [pc EXCEPT ![p] = "decoded"]
    /\ reply' = [reply EXCEPT ![p] = Some(from_slice(body[p][1]).reply)]
    /\ outcome' = outcome
    /\ UNCHANGED <<connection, query, url, net, body, gets, sent>>
    /\ UNCHANGED <<caller, made, builder>>

\* .and_then(move |body| serde_json::from_slice(&body).map_err(Error::from))
decode(p) ==
    /\ pc[p] = "aggregated"
    /\ LET r == from_slice(body[p][1])
       IN  IF r.ok
           THEN /\ pc' = [pc EXCEPT ![p] = "decoded"]
                /\ reply' = [reply EXCEPT ![p] = Some(r.reply)]
                /\ outcome' = outcome
           ELSE /\ pc' = [pc EXCEPT ![p] = "resolved"]
                /\ outcome' = [outcome EXCEPT ![p] = ResultErr("decode", "")]
                /\ reply' = reply
    /\ UNCHANGED <<connection, query, url, net, body, gets, sent>>
    /\ UNCHANGED <<caller, made, builder>>

\* .and_then(move |reply| match reply { .. })
resolve(p) ==
    /\ pc[p] = "decoded"
    /\ pc' = [pc EXCEPT ![p] = "resolved"]
    /\ outcome' = [outcome EXCEPT ![p] = Classify(reply[p][1])]
    /\ UNCHANGED <<connection, query, url, net, body, reply, gets, sent>>
    /\ UNCHANGED <<caller, made, builder>>

(***************************************************************************)
(* The blocking functions geocode and degeocode: a Core and a Connection   *)
(* of the call's own, one pipeline run to its end by core.run, the result  *)
(* mapped.  The caller is blocked from the call to the return.             *)
(***************************************************************************)
Blocking(p, fn, q, from) ==
    /\ \A r \in Pipes : pc[r] = "idle"
    /\ made.res # "panicked"
    /\ calls < MaxCalls
    /\ calls' = calls + 1
    /\ connection' = Connection_new
    /\ conv' = [conv EXCEPT ![p] = fn]
    /\ last' = NoCall
    /\ origin' = from
    /\ get(p, q)
    /\ UNCHANGED builder

\* pub fn geocode, up to Connection::geocode(address)
geocode(p, address) ==
    /\ Blocking(p, "geocode", address, None)
    /\ made' = NoMade

\* pub fn degeocode, up to Connection::degeocode(coordinates)
degeocode(p, coordinates) ==
    /\ Blocking(p, "degeocode", coordinates, None)
    /\ made' = NoMade

\* WGS84::new with a position try_new refuses panics.
WGS84_new(lat, lon) ==
    LET w == WGS84_try_new(lat, lon)
    IN  [panic |-> w = None, val |-> w]

\* The caller constructs a position from two numbers, with WGS84::try_new
\* (None when refused) or with WGS84::new (a panic when refused).
construct(ctor, lat, lon) ==
    /\ \A r \in Pipes : pc[r] = "idle"
    /\ made.res # "panicked"
    /\ calls < MaxCalls
    /\ made' = [ctor |-> ctor, lat |-> lat, lon |-> lon,
                res |-> IF WGS84_try_new(lat, lon) # None THEN "ok"
                        ELSE IF ctor = "new" /\ WGS84_new(lat, lon).panic
                        THEN "panicked" ELSE "failed",
                val |-> WGS84_try_new(lat, lon),
                sent |-> sent]
    /\ UNCHANGED <<connection, sent>>
    /\ UNCHANGED <<pipeline, caller, builder>>

\* degeocode(position): DegeocodeQuery::from(position), that is
\* DegeocodeQuery::new(Coordinates::from(position)), then the call.
degeocode_made(p) ==
    /\ made.res = "ok"
    /\ Blocking(p, "degeocode", DegeocodeQuery_new(made.val[1]), None)
    /\ UNCHANGED made

\* test::compare: degeocode of the first element geocode returned
degeocode_first(p) ==
    /\ last.fn = "geocode"
    /\ last.ret.kind = "ok"
    /\ last.ret.items # <<>>
    /\ Blocking(p, "degeocode", DegeocodeQuery_new(last.ret.items[1]),
                Some([query |-> last.query, url |-> last.url, net |-> last.net,
                      ret |-> last.ret]))
    /\ made' = NoMade

\* Core::new()? fails: the function returns the io error at once.
core_error(fn) ==
    /\ \A r \in Pipes : pc[r] = "idle"
    /\ made.res # "panicked"
    /\ calls < MaxCalls
    /\ calls' = calls + 1
    /\ last' = [NoCall EXCEPT !.fn = fn, !.ret = RetErr("io", "")]
    /\ origin' = None
    /\ UNCHANGED <<connection, conv, sent, made>>
    /\ UNCHANGED <<pipeline, builder>>

\* core.run returns, the result is mapped and handed to the caller; the Core
\* and the Connection of the call are dropped.
finish(p) ==
    /\ pc[p] = "resolved"
    /\ conv[p] # "none"
    /\ last' = [fn |-> conv[p], query |-> query[p], url |-> url[p],
                net |-> net[p], outcome |-> outcome[p],
                ret |-> run_and_map(conv[p], outcome[p]), origin |-> origin]
    /\ origin' = None
    /\ conv' = [conv EXCEPT ![p] = "none"]
    /\ pc' = [pc EXCEPT ![p] = "idle"]
    /\ query' = [query EXCEPT ![p] = None]
    /\ url' = [url EXCEPT ![p] = None]
    /\ net' = [net EXCEPT ![p] = None]
    /\ body' = [body EXCEPT ![p] = None]
    /\ reply' = [reply EXCEPT ![p] = None]
    /\ outcome' = [outcome EXCEPT ![p] = Pending]
    /\ gets' = [gets EXCEPT ![p] = 0]
    /\ UNCHANGED <<connection, sent, calls, made, builder>>

\* The transport of a blocking call: the service's answer to the request,
\* any other body, or a failure.
transport(p) ==
    /\ pc[p] = "in_flight"
    /\ \E d \in Deliveries(Bodies \cup {Service(url[p][1])}) : respond(p, d)

(***************************************************************************)
(* Spec: one caller of the blocking functions, against a transport that    *)
(* may deliver any body or fail.                                           *)
(***************************************************************************)
Next ==
    \/ \E p \in Pipes, q \in GeocodeQueries : geocode(p, q)
    \/ \E p \in Pipes, q \in DegeocodeQueries : degeocode(p, q)
    \/ \E p \in Pipes : degeocode_first(p)
    \/ \E ctor \in {"try_new", "new"}, lat \in Latitudes, lon \in Longitudes :
          construct(ctor, lat, lon)
    \/ \E p \in Pipes : degeocode_made(p)
    \/ \E fn \in {"geocode", "degeocode"} : core_error(fn)
    \/ \E p \in Pipes : send(p)
    \/ \E p \in Pipes : transport(p)
    \/ \E p \in Pipes : concat2(p)
    \/ \E p \in Pipes : decode(p)
    \/ \E p \in Pipes : resolve(p)
    \/ \E p \in Pipes : finish(p)

Spec == Init /\ [][Next]_vars

(***************************************************************************)
(* SpecConn: the pipelines of one Connection, run side by side on its      *)
(* reactor in any interleaving.                                            *)
(***************************************************************************)
FewGeocodeQueries ==
    {GeocodeQuery_new(Place_Address(Address1)),
     GeocodeQuery_bounds(GeocodeQuery_new(Place_Address(Address1)),
                         Viewport(Coord(38, -121), Coord(37, -123)))}

FewDegeocodeQueries == {DegeocodeQuery_new(Coord(37, -122))}

NextConn ==
    \/ \E p \in Pipes, q \in FewGeocodeQueries : Connection_geocode(p, q)
    \/ \E p \in Pipes, q \in FewDegeocodeQueries : Connection_degeocode(p, q)
    \/ \E p \in Pipes : send(p)
    \/ \E p \in Pipes, d \in Deliveries(FewBodies) : respond(p, d)
    \/ \E p \in Pipes : concat2(p)
    \/ \E p \in Pipes : decode(p)
    \/ \E p \in Pipes : resolve(p)

SpecConn == Init /\ [][NextConn]_vars

(***************************************************************************)
(* SpecLive: pipelines of one Connection on a reactor that is run          *)
(* (core.run, as geocode, degeocode and the tests do): a future that can   *)
(* take a step takes it.  The fairness of respond is the assumption that   *)
(* the transport answers every GET or reports an error for it.             *)
(***************************************************************************)
LiveBodies ==
    {NotJson, Json("OK", None, <<Result1>>),
     Json("OVER_QUERY_LIMIT", Some("quota exceeded"), <<>>)}

Answers(p) == \E d \in Deliveries(LiveBodies) : respond(p, d)

NextLive ==
    \/ \E p \in Pipes, q \in FewGeocodeQueries : Connection_geocode(p, q)
    \/ \E p \in Pipes : send(p)
    \/ \E p \in Pipes : Answers(p)
    \/ \E p \in Pipes : concat2(p)
    \/ \E p \in Pipes : decode(p)
    \/ \E p \in Pipes : resolve(p)

PipelineFairness(p) ==
    /\ WF_vars(send(p))
    /\ WF_vars(Answers(p))
    /\ WF_vars(concat2(p))
    /\ WF_vars(decode(p))
    /\ WF_vars(resolve(p))

SpecLive == Init /\ [][NextLive]_vars /\ \A p \in Pipes : PipelineFairness(p)

(***************************************************************************)
(* SpecQuery: the builders and the encoders on their own.  A caller starts *)
(* a query, calls setters in any order and hands the query to              *)
(* serde_urlencoded::to_string, as Connection::get does; or it hands one   *)
(* value to an encoder, or a wire list of tags to the decoder of ApiSet    *)
(* and the set to its encoder.  The encoders are pure and the state keeps  *)
(* the last application only, so a value is handed to an encoder when no   *)
(* earlier application is held.                                            *)
(***************************************************************************)
Places ==
    {Place_Address(Address1), Place_Address(Address2),
     Place_ComponentFilter(<<>>),
     Place_ComponentFilter(<<Rule("Country", "US")>>),
     Place_ComponentFilter(<<Rule("PostalCode", "94043"), Rule("Country", "US")>>)}

Positions == {Coord(37, -122), Coord(-33, 151), Coord(90, -180)}

Viewports ==
    {Viewport(Coord(38, -121), Coord(37, -123)),
     Viewport(Coord(90, 180), Coord(-90, -180))}

ResultTypes ==
    {<<Variant("Type", "Country")>>,
     <<Variant("Type", "Locality"), Variant("Type", "Country")>>}

LocationTypes ==
    {<<Variant("LocationType", "Rooftop")>>,
     <<Variant("LocationType", "Approximate"), Variant("LocationType", "Rooftop")>>}

\* Values of the tagged types, with and without payload.
TaggedValues ==
    {Variant("Type", "PostalCode"), Variant("LocationType", "Rooftop"),
     Variant("Language", "PortugueseBrazil"), Variant("Region", "Canada"),
     Variant("Region", "RepublicOfKorea"),
     Variant("StatusCode", "ZeroResults")}
    \cup {Rule("Country", "US"), Rule("Country", "CA"), Rule("PostalCode", "94043"),
          Rule("AdministrativeArea", "CA")}

\* Wire lists of type tags: any order and multiplicity, and one list with a
\* tag outside the catalog.
WireTags == {"route", "country", "locality"}
WireLists ==
    UNION {[1..n -> WireTags] : n \in 0..MaxLen} \cup {<<"route", "planet">>}

Applied(of, input, out) ==
    [of |-> of, input |-> input, writes |-> writes, out |-> out]

\* GeocodeQuery::new(filter)
new_geocode(filter) ==
    /\ draft = None
    /\ draft' = Some(GeocodeQuery_new(filter))
    /\ writes' = <<>>
    /\ encoded' = None
    /\ tags' = None
    /\ UNCHANGED <<connection, sent, made>>
    /\ UNCHANGED <<pipeline, caller>>

\* DegeocodeQuery::new(coordinates)
new_degeocode(coordinates) ==
    /\ draft = None
    /\ draft' = Some(DegeocodeQuery_new(coordinates))
    /\ writes' = <<>>
    /\ encoded' = None
    /\ tags' = None
    /\ UNCHANGED <<connection, sent, made>>
    /\ UNCHANGED <<pipeline, caller>>

\* One setter call on the query of kind `kind`: the query is moved in, the
\* updated query is returned.
setter(kind, field, value, q) ==
    /\ draft # None
    /\ draft[1].kind = kind
    /\ Len(writes) < MaxWrites
    /\ draft' = Some(q)
    /\ writes' = Append(writes, <<field, value>>)
    /\ UNCHANGED <<encoded, tags>>
    /\ UNCHANGED <<connection, sent, made>>
    /\ UNCHANGED <<pipeline, caller>>

set_bounds(v) ==
    setter("geocode", "bounds", v, GeocodeQuery_bounds(draft[1], v))
set_language(v) ==
    setter(draft[1].kind, "language", v, Query_language(draft[1], v))
set_region(v) ==
    setter("geocode", "region", v, GeocodeQuery_region(draft[1], v))
set_result_type(v) ==
    setter("degeocode", "result_type", v, DegeocodeQuery_result_type(draft[1], v))
set_location_type(v) ==
    setter("degeocode", "location_type", v, DegeocodeQuery_location_type(draft[1], v))

\* One encoder applied to one value; what the caller held is consumed.
apply(of, input, out) ==
    /\ encoded' = Some(Applied(of, input, out))
    /\ draft' = None
    /\ writes' = <<>>
    /\ tags' = None
    /\ UNCHANGED <<connection, sent, made>>
    /\ UNCHANGED <<pipeline, caller>>

\* serde_urlencoded::to_string(i_params), the first step of Connection::get
encode ==
    /\ draft # None
    /\ apply("query", draft[1], to_string(draft[1]))

\* rule.serialize(serializer) of one ComponentFilterRule
encode_rule(rule) ==
    /\ draft = None
    /\ encoded = None
    /\ apply("rule", rule, ComponentFilterRule_serialize(rule))

\* serde_util::variant_name(t) of one value of a tagged type
extract(t) ==
    /\ draft = None
    /\ encoded = None
    /\ apply("variant_name", t, variant_name(t))

\* ApiSet::<Type>::deserialize of a wire list; the HashSet it collects has
\* one of its iteration orders.
decode_set(list) ==
    /\ draft = None
    /\ encoded = None
    /\ LET d == ApiSet_deserialize("Type", list)
       IN  \/ /\ d.ok
              /\ \E o \in d.orders :
                    tags' = Some([wire |-> list, ok |-> TRUE, set |-> o])
           \/ /\ ~d.ok
              /\ tags' = Some([wire |-> list, ok |-> FALSE, set |-> <<>>])
    /\ encoded' = None
    /\ UNCHANGED <<draft, writes>>
    /\ UNCHANGED <<connection, sent, made>>
    /\ UNCHANGED <<pipeline, caller>>

\* ApiSet::serialize of the set that was decoded
encode_set ==
    /\ tags # None
    /\ tags[1].ok
    /\ apply("set", tags[1], ApiSet_serialize(tags[1].set))

NextQuery ==
    \/ \E filter \in Places : new_geocode(filter)
    \/ \E coordinates \in Positions : new_degeocode(coordinates)
    \/ \E v \in Viewports : set_bounds(v)
    \/ \E v \in DOMAIN Language : set_language(v)
    \/ \E v \in DOMAIN Region : set_region(v)
    \/ \E v \in ResultTypes : set_result_type(v)
    \/ \E v \in LocationTypes : set_location_type(v)
    \/ encode
    \/ \E rule \in {t \in TaggedValues : t.enum = "ComponentFilterRule"} :
          encode_rule(rule)
    \/ \E t \in TaggedValues : extract(t)
    \/ \E list \in WireLists : decode_set(list)
    \/ encode_set

SpecQuery == Init /\ [][NextQuery]_vars

(***************************************************************************)
(* Properties.                                                             *)
(***************************************************************************)
Resolved(p) == pc[p] = "resolved"
\* Pipeline p has decoded its body into a ReplyResult.
Decoded(p) == reply[p] # None
Sent(p) == pc[p] \in {"in_flight", "aggregated", "decoded", "resolved"}

\* C1: a pipeline whose decoded envelope has status ZERO_RESULTS and no
\* results resolves as a success with an empty list of Reply.
C1_ZeroResultsIsSuccess ==
    \A p \in Pipes :
        (Resolved(p) /\ Decoded(p) /\ body[p][1].status = "ZERO_RESULTS"
            /\ reply[p][1].results = <<>>)
        => outcome[p] = ResultOk(<<>>)

FailureStatuses == {"OverQueryLimit", "RequestDenied", "InvalidRequest", "UnknownError"}

\* C2: a pipeline whose decoded envelope has one of the four failure
\* statuses resolves as a failure of class "status" whose kind is that very
\* status, whatever the envelope's results.
C2_FailureStatusClassified ==
    \A p \in Pipes : \A st \in FailureStatuses :
        (Resolved(p) /\ Decoded(p) /\ body[p][1].status = StatusCode[st])
        => /\ outcome[p].kind = "err"
           /\ outcome[p].class = "status"
           /\ outcome[p].code = st
           /\ outcome[p].results = <<>>

\* C2 happens: an OVER_QUERY_LIMIT envelope that holds results has resolved
\* as the failure OverQueryLimit.
C2_Witness ==
    \E p \in Pipes :
        /\ Resolved(p) /\ Decoded(p)
        /\ body[p][1].status = "OVER_QUERY_LIMIT"
        /\ Len(body[p][1].results) = 2
        /\ outcome[p].code = "OverQueryLimit"

\* C3: a failure of class "status" exposes the error_message of the envelope
\* it was made from: Some(m) when the envelope holds m, None when it holds
\* none.
C3_FailureCarriesMessage ==
    \A p \in Pipes :
        (Resolved(p) /\ Decoded(p) /\ outcome[p].class = "status")
        => outcome[p].message = reply[p][1].error_message

\* C4: a pipeline whose decoded envelope has status OK resolves as a success
\* with the results of the body, as many and in the body's order.
C4_OkResultsAuthoritative ==
    \A p \in Pipes :
        (Resolved(p) /\ Decoded(p) /\ body[p][1].status = "OK")
        => /\ outcome[p].kind = "ok"
           /\ Len(outcome[p].results) = Len(body[p][1].results)
           /\ \A i \in 1..Len(body[p][1].results) :
                LET json == body[p][1].results[i]
                    r == outcome[p].results[i]
                IN  /\ r.formatted_address = json.formatted_address
                    /\ r.geometry.location.latitude = json.geometry.location.lat
                    /\ r.geometry.location.longitude = json.geometry.location.lng

\* C4 happens: an OK envelope with two different results has resolved.
C4_Witness ==
    \E p \in Pipes :
        /\ Resolved(p) /\ Decoded(p)
        /\ body[p][1].status = "OK"
        /\ body[p][1].results = <<Result2, Result1>>
        /\ Len(outcome[p].results) = 2

\* C5: a pipeline never aborts: a call of geocode or degeocode, for every
\* query of the builders, builds its URL and goes on to resolve with a value.
C5_NeverAborts == \A p \in Pipes : pc[p] # "aborted"

\* C6: a pipeline has issued no GET before it sends and exactly one from
\* then on, also after a transport failure, a decode failure or a failure
\* status; the network has seen one GET for each pipeline that has sent,
\* equal queries or not.
C6_OneGetPerCall ==
    /\ \A p \in Pipes : gets[p] = IF Sent(p) THEN 1 ELSE 0
    /\ sent = Cardinality({p \in Pipes : Sent(p)})

\* C6 happens: two pipelines with the same URL have each sent, the network
\* has seen two GETs, and one of the two has resolved with a transport error.
C6_Witness ==
    \E p \in Pipes, r \in Pipes :
        /\ p # r
        /\ Sent(p) /\ Sent(r)
        /\ url[p] = url[r]
        /\ sent = 2
        /\ Resolved(p) /\ outcome[p].class = "transport"

\* What a pipeline that runs alone resolves with, given its own delivery.
Alone(d) ==
    IF d.kind # "body" THEN ResultErr("transport", "")
    ELSE IF ~from_slice(d.body).ok THEN ResultErr("decode", "")
    ELSE Classify(from_slice(d.body).reply)

\* C7: a pipeline that has resolved, whatever the other pipelines of the
\* Connection did in between, has resolved with what its own query and its
\* own delivery give when it runs alone; the Connection is as it was made.
C7_PipelinesIndependent ==
    /\ connection = Connection_new
    /\ \A p \in Pipes :
          /\ url[p] # None =>
                url[p][1] = [base |-> Connection_URL,
                             query |-> to_string(query[p][1]).pairs]
          /\ Resolved(p) => outcome[p] = Alone(net[p][1])

\* C7 happens: two pipelines of the Connection have both resolved, one with
\* a list of Reply and the other with a failure.
C7_Witness ==
    \E p \in Pipes, r \in Pipes :
        /\ p < r
        /\ Resolved(p) /\ Resolved(r)
        /\ outcome[p].kind = "err" /\ outcome[r].kind = "ok"
        /\ outcome[r].results # <<>>

\* C8: when the pipeline of geocode (degeocode) resolved with n Reply, the
\* function returned n elements, the i-th the geometry.location (the
\* formatted_address) of the i-th Reply.
C8_ProjectionInOrder ==
    last.outcome.kind = "ok" =>
        /\ last.ret.kind = "ok"
        /\ Len(last.ret.items) = Len(last.outcome.results)
        /\ \A i \in 1..Len(last.outcome.results) :
              last.ret.items[i] =
                 IF last.fn = "geocode"
                 THEN last.outcome.results[i].geometry.location
                 ELSE last.outcome.results[i].formatted_address

\* C8 happens: geocode has returned the two positions of a reply with two
\* results, in the reply's order.
C8_Witness ==
    /\ last.fn = "geocode"
    /\ last.net # None
    /\ last.net[1].body.results = <<Result2, Result1>>
    /\ last.ret.items = <<Coord(-33, 151), Coord(37, -122)>>

\* C9: when the pipeline of geocode or degeocode failed, the function
\* returned that failure, and no sequence.
C9_FailureVerbatim ==
    (last.fn # "none" /\ last.outcome.kind = "err") =>
        /\ last.ret.kind = "err"
        /\ last.ret.class = last.outcome.class
        /\ last.ret.code = last.outcome.code
        /\ last.ret.items = <<>>

\* C9 happens: degeocode has returned the failure RequestDenied of a reply
\* that held results.
C9_Witness ==
    /\ last.fn = "degeocode"
    /\ last.net # None
    /\ last.net[1].body.results # <<>>
    /\ last.ret = RetErr("status", "RequestDenied")

\* The service answered the request of call c.
Answered(c) ==
    /\ c.url # None
    /\ c.net = Some(Delivery("body", Service(c.url[1])))

\* Call c was geocode of an address the service knows.
KnownAddress(c) ==
    /\ c.query[1].kind = "geocode"
    /\ c.query[1].filter[1].variant = "Address"
    /\ c.query[1].filter[1].address \in DOMAIN ServiceForward

\* The position the service holds for address a.
PositionOf(a) ==
    Coord(ServiceForward[a].geometry.location.lat,
          ServiceForward[a].geometry.location.lng)

\* C10: against the service, geocode of a known address A returns the
\* position C of A first, and degeocode of that first element returns A
\* first.
C10_RoundTrip ==
    /\ (last.fn = "geocode" /\ Answered(last) /\ KnownAddress(last)) =>
          /\ last.ret.kind = "ok"
          /\ last.ret.items # <<>>
          /\ last.ret.items[1] = PositionOf(last.query[1].filter[1].address)
    /\ (/\ last.fn = "degeocode" /\ last.origin # None /\ Answered(last)
        /\ Answered(last.origin[1]) /\ KnownAddress(last.origin[1])) =>
          /\ last.ret.kind = "ok"
          /\ last.ret.items # <<>>
          /\ last.ret.items[1] = last.origin[1].query[1].filter[1].address

\* C10 happens: geocode of the second address was answered, and degeocode of
\* the first element was answered and has returned the second address.
C10_Witness ==
    /\ last.fn = "degeocode"
    /\ last.origin # None
    /\ Answered(last) /\ Answered(last.origin[1]) /\ KnownAddress(last.origin[1])
    /\ last.origin[1].query[1].filter[1].address = Address2
    /\ last.ret.items = <<Address2>>

(***************************************************************************)
(* Properties of the encoders and builders (SpecQuery).                    *)
(***************************************************************************)
\* The last application was to_string of a query.
EncodedQuery == encoded # None /\ encoded[1].of = "query"
CountKey(pairs, k) == Cardinality({i \in 1..Len(pairs) : pairs[i][1] = k})
ValueOf(pairs, k) == pairs[CHOOSE i \in 1..Len(pairs) : pairs[i][1] = k][2]

\* C11: every GeocodeQuery, after any builder calls, encodes its locator as
\* exactly one of the keys address and components: address and no components
\* for free text, components and no address for component filters.
C11_LocatorKeyExclusive ==
    (EncodedQuery /\ encoded[1].input.kind = "geocode") =>
        LET place == encoded[1].input.filter[1]
            out == encoded[1].out
        IN  /\ out.res = "ok"
            /\ CountKey(out.pairs, "address") + CountKey(out.pairs, "components") = 1
            /\ place.variant = "Address" => CountKey(out.pairs, "address") = 1
            /\ place.variant = "ComponentFilter" =>
                   CountKey(out.pairs, "components") = 1

\* The wire tags of the rules of a component filter.
RuleTags ==
    [PostalCode |-> "postal_code", Country |-> "country", Route |-> "route",
     Locality |-> "locality", AdministrativeArea |-> "administrative_area"]
RuleText(rule) == RuleTags[rule.case] \o ":" \o rule.payload

\* C12: a ComponentFilterRule encodes as exactly "<tag>:<value>", the tag
\* the lower-snake-case label of its case and the value its payload:
\* Country("US") encodes to "country:US".
C12_RuleEncoding ==
    (encoded # None /\ encoded[1].of = "rule") =>
        /\ encoded[1].out.res = "ok"
        /\ encoded[1].out.str = RuleText(encoded[1].input)

\* C13: a GeocodeQuery whose locator is a set of rules encodes the key
\* components as the "<tag>:<value>" texts of the rules joined by "|", each
\* rule once, none reduced to its bare tag.
C13_ComponentsEncoding ==
    (/\ EncodedQuery
     /\ encoded[1].input.kind = "geocode"
     /\ encoded[1].input.filter[1].variant = "ComponentFilter") =>
        LET rules == encoded[1].input.filter[1].components
            out == encoded[1].out
        IN  /\ out.res = "ok"
            /\ CountKey(out.pairs, "components") = 1
            /\ ValueOf(out.pairs, "components") =
                   JoinPipe([i \in 1..Len(rules) |-> RuleText(rules[i])])

\* C14: a wire list of tags decoded into an ApiSet and encoded again gives
\* a pipe-joined string that holds every distinct tag of the list once and
\* no other tag, whatever the order and multiplicity in the list.
C14_SetRoundTrip ==
    (encoded # None /\ encoded[1].of = "set") =>
        LET wire == encoded[1].input.wire
        IN  /\ encoded[1].out.ok
            /\ encoded[1].out.str \in
                   {JoinPipe(o) : o \in Orders({wire[i] : i \in 1..Len(wire)})}

\* The list [A, B, A] has gone through the decoder and the encoder.
C14_Witness ==
    /\ encoded # None
    /\ encoded[1].of = "set"
    /\ Len(encoded[1].input.wire) = 3
    /\ encoded[1].input.wire[1] = encoded[1].input.wire[3]
    /\ encoded[1].input.wire[1] # encoded[1].input.wire[2]
    /\ encoded[1].out.ok

\* The label a tagged value is declared with.
DeclaredLabel(t) ==
    IF t.enum = "ComponentFilterRule" THEN RuleTags[t.case]
    ELSE LabelsOf(t.enum)[t.case]

\* C15: variant_name returns the declared label of the value's case for
\* every value of a tagged type, whatever the payload, for cases without
\* payload and for cases with payload alike.
C15_TagOfEveryVariant ==
    (encoded # None /\ encoded[1].of = "variant_name") =>
        /\ encoded[1].out.ok
        /\ encoded[1].out.name = DeclaredLabel(encoded[1].input)

OptionalFields(kind) ==
    IF kind = "geocode" THEN {"bounds", "language", "region"}
    ELSE {"language", "result_type", "location_type"}
Written(ws, f) == \E i \in 1..Len(ws) : ws[i][1] = f
LastWritten(ws, f) ==
    ws[CHOOSE i \in 1..Len(ws) :
          ws[i][1] = f /\ \A j \in (i + 1)..Len(ws) : ws[j][1] # f][2]

\* C16: the encoded query string holds the key of an optional field if and
\* only if a builder call set the field; an unset field gives no key, no
\* null and no empty value.
C16_OptionalKeyIffSet ==
    EncodedQuery =>
        LET out == encoded[1].out
            ws == encoded[1].writes
        IN  /\ \A f \in OptionalFields(encoded[1].input.kind) :
                   /\ Written(ws, f) =>
                          out.res = "ok" /\ CountKey(out.pairs, f) = 1
                   /\ ~Written(ws, f) => CountKey(out.pairs, f) = 0
            /\ \A i \in 1..Len(out.pairs) :
                   out.pairs[i][1] \in OptionalFields(encoded[1].input.kind)
                       => out.pairs[i][2] \notin {"", "null"}

\* The wire text of the value v of the optional field f.
WireValue(f, v) ==
    CASE f = "language" -> Language[v]
      [] f = "region" -> Region[v]
      [] f \in {"result_type", "location_type"} ->
            JoinPipe([i \in 1..Len(v) |-> LabelsOf(v[i].enum)[v[i].case]])

\* C17: setters are last-write-wins: after a setter was called with v1 and
\* later with v2, other setters in between or not, the field is v2 and the
\* encoded query carries v2 only.
C17_LastWriteWins ==
    EncodedQuery =>
        LET q == encoded[1].input
            out == encoded[1].out
            ws == encoded[1].writes
        IN  \A f \in OptionalFields(q.kind) :
                Written(ws, f) =>
                    /\ q[f] = Some(LastWritten(ws, f))
                    /\ out.res = "ok"
                    /\ CountKey(out.pairs, f) = 1
                    /\ f # "bounds" =>
                           ValueOf(out.pairs, f) = WireValue(f, LastWritten(ws, f))

\* C19: every DegeocodeQuery, after any builder calls, encodes its
\* coordinate under exactly one key latlng, whose value is the latitude, a
\* comma and the longitude in decimal degrees.
C19_LatLngKey ==
    (EncodedQuery /\ encoded[1].input.kind = "degeocode") =>
        LET c == encoded[1].input.coordinates[1]
            out == encoded[1].out
        IN  /\ out.res = "ok"
            /\ CountKey(out.pairs, "latlng") = 1
            /\ ValueOf(out.pairs, "latlng") =
                   ToString(c.latitude) \o "," \o ToString(c.longitude)

\* A DegeocodeQuery with a negative longitude has been encoded after
\* setters for all of its three optional fields were called.
C19_Witness ==
    /\ EncodedQuery
    /\ encoded[1].input.kind = "degeocode"
    /\ encoded[1].input.coordinates[1].longitude < 0
    /\ \A f \in OptionalFields("degeocode") : Written(encoded[1].writes, f)
    /\ encoded[1].out.res = "ok"

(***************************************************************************)
(* Properties of the coordinates (Spec).                                   *)
(***************************************************************************)
InRange(lat, lon) == lat \in -90..90 /\ lon \in -180..180
ValidCoordinates(c) == InRange(c.latitude, c.longitude)
ValidViewport(v) == ValidCoordinates(v.northeast) /\ ValidCoordinates(v.southwest)
ValidReply(r) ==
    /\ ValidCoordinates(r.geometry.location)
    /\ ValidViewport(r.geometry.viewport)
    /\ r.geometry.bounds # None => ValidViewport(r.geometry.bounds[1])
\* A result of a body with a viewport corner off the globe.
BadCorner(v) ==
    ~InRange(v.northeast.lat, v.northeast.lng) \/ ~InRange(v.southwest.lat, v.southwest.lng)
\* A result of a body with a location or a viewport corner off the globe.
OffGlobe(r) ==
    \/ ~InRange(r.geometry.location.lat, r.geometry.location.lng)
    \/ BadCorner(r.geometry.viewport)
    \/ r.geometry.bounds # None /\ BadCorner(r.geometry.bounds[1])

\* C18: every Coordinate the system holds is valid: construction fails,
\* without clamping, for a latitude outside [-90, 90] or a longitude outside
\* [-180, 180]; a body with such a location or viewport corner resolves as
\* a decode failure; no reply, result or query holds an invalid Coordinate.
C18_CoordinatesValid ==
    /\ made.res # "none" =>
          IF InRange(made.lat, made.lon)
          THEN /\ made.res = "ok"
               /\ made.val = Some([latitude |-> made.lat, longitude |-> made.lon])
          ELSE made.res \in {"failed", "panicked"} /\ made.val = None
    /\ \A p \in Pipes :
          /\ (/\ pc[p] \in {"decoded", "resolved"}
              /\ body[p] # None
              /\ body[p][1].wellformed
              /\ \E i \in 1..Len(body[p][1].results) : OffGlobe(body[p][1].results[i]))
                => /\ pc[p] = "resolved"
                   /\ outcome[p] = ResultErr("decode", "")
                   /\ reply[p] = None
          /\ reply[p] # None =>
                \A i \in 1..Len(reply[p][1].results) : ValidReply(reply[p][1].results[i])
          /\ \A i \in 1..Len(outcome[p].results) : ValidReply(outcome[p].results[i])
          /\ (query[p] # None /\ query[p][1].coordinates # None) =>
                ValidCoordinates(query[p][1].coordinates[1])
          /\ (query[p] # None /\ query[p][1].bounds # None) =>
                ValidViewport(query[p][1].bounds[1])
    /\ (last.fn = "geocode" /\ last.ret.kind = "ok") =>
          \A i \in 1..Len(last.ret.items) : ValidCoordinates(last.ret.items[i])

\* A pipeline has resolved as a decode failure on a body whose results have
\* valid locations and one viewport corner off the globe.
C18_Witness ==
    \E p \in Pipes :
        /\ Resolved(p)
        /\ body[p] # None
        /\ body[p][1].wellformed
        /\ \A i \in 1..Len(body[p][1].results) :
              InRange(body[p][1].results[i].geometry.location.lat,
                      body[p][1].results[i].geometry.location.lng)
        /\ \E i \in 1..Len(body[p][1].results) :
              BadCorner(body[p][1].results[i].geometry.viewport)
        /\ outcome[p] = ResultErr("decode", "")

\* C20: an invalid coordinate never reaches the network: the construction
\* of a position from an invalid latitude or longitude fails, no
\* DegeocodeQuery exists for it and no GET is issued for it; every
\* DegeocodeQuery handed to a pipeline holds a valid position.
C20_InvalidNeverSent ==
    /\ (made.res # "none" /\ ~InRange(made.lat, made.lon)) =>
          /\ made.res \in {"failed", "panicked"}
          /\ \A p \in Pipes : pc[p] = "idle" /\ query[p] = None /\ gets[p] = 0
          /\ sent = made.sent
    /\ \A p \in Pipes :
          (query[p] # None /\ query[p][1].kind = "degeocode") =>
              /\ ValidCoordinates(query[p][1].coordinates[1])
              /\ made.res = "ok" =>
                    /\ InRange(made.lat, made.lon)
                    /\ query[p][1].coordinates[1] =
                          [latitude |-> made.lat, longitude |-> made.lon]

\* After a call that issued a GET, the construction of a position with
\* longitude 181 has failed.
C20_Witness ==
    /\ made.res = "failed"
    /\ made.lon = 181
    /\ made.sent > 0
    /\ sent = made.sent

(***************************************************************************)
(* Properties of the decoded replies (Spec).                               *)
(***************************************************************************)
NoDuplicates(seq) == \A i, j \in 1..Len(seq) : seq[i] = seq[j] => i = j

\* C21: the type tags of every decoded Reply and of every decoded
\* AddressComponent are a deduplicated set: a tag that occurs several times
\* in the wire array occurs once in the decoded value.
C21_TypeTagsDeduplicated ==
    \A p \in Pipes :
        reply[p] # None =>
            \A i \in 1..Len(reply[p][1].results) :
                LET r == reply[p][1].results[i]
                IN  /\ NoDuplicates(r.types)
                    /\ \A k \in 1..Len(r.address_components) :
                          NoDuplicates(r.address_components[k].types)

(***************************************************************************)
(* Properties of the steps of a pipeline (SpecConn).                       *)
(***************************************************************************)
\* The steps in their order; "aggregated" is In-flight with the whole body
\* read.
Rank(state) ==
    CASE state = "idle" -> 0
      [] state = "aborted" -> 0
      [] state = "built" -> 1
      [] state = "in_flight" -> 2
      [] state = "aggregated" -> 3
      [] state = "decoded" -> 4
      [] state = "resolved" -> 5

\* One step of pipeline p: to the next step, or to Resolved with the failure
\* of the step it was in.
StepInOrder(p) ==
    /\ Rank(pc'[p]) >= Rank(pc[p])
    /\ pc'[p] # pc[p] =>
          \/ pc[p] = "idle" /\ pc'[p] \in {"built", "aborted"}
          \/ pc[p] = "built" /\ pc'[p] = "in_flight"
          \/ /\ pc[p] = "in_flight" /\ pc'[p] = "aggregated"
             /\ net[p] # None /\ net[p][1].kind = "body"
          \/ /\ pc[p] = "in_flight" /\ pc'[p] = "resolved"
             /\ net[p] # None /\ net[p][1].kind \in {"send_error", "body_error"}
             /\ outcome'[p] = ResultErr("transport", "")
             /\ body'[p] = None /\ reply'[p] = None
          \/ /\ pc[p] = "aggregated" /\ pc'[p] = "decoded"
             /\ from_slice(body[p][1]).ok
             /\ reply'[p] = Some(from_slice(body[p][1]).reply)
          \/ /\ pc[p] = "aggregated" /\ pc'[p] = "resolved"
             /\ ~from_slice(body[p][1]).ok
             /\ outcome'[p] = ResultErr("decode", "")
             /\ reply'[p] = None
          \/ /\ pc[p] = "decoded" /\ pc'[p] = "resolved"
             /\ outcome'[p].kind = "ok" \/ outcome'[p].class = "status"
    /\ pc[p] = "resolved" => outcome'[p] = outcome[p]

\* C22: the steps of a pipeline occur in the order Built, In-flight,
\* Decoded, Resolved and never go back; a failure at a step resolves the
\* pipeline with that failure and skips the later steps: after a transport
\* failure nothing is decoded or classified, after a decode failure nothing
\* is classified.
C22_StepsInOrder == [][\A p \in Pipes : StepInOrder(p)]_vars

\* One pipeline has resolved with a transport failure and holds no body and
\* no reply, another has resolved with a decode failure and holds no reply.
C22_Witness ==
    \E p, r \in Pipes :
        /\ Resolved(p) /\ outcome[p] = ResultErr("transport", "")
        /\ body[p] = None /\ reply[p] = None
        /\ Resolved(r) /\ outcome[r] = ResultErr("decode", "")
        /\ body[r] # None /\ reply[r] = None

(***************************************************************************)
(* Properties of the calls between the encoders and variant_name           *)
(* (SpecQuery).                                                            *)
(***************************************************************************)
\* The last application was an encoder handed a ComponentFilterRule or a
\* non-empty set of them.
EncodedRules ==
    /\ encoded # None
    /\ \/ encoded[1].of = "rule"
       \/ /\ encoded[1].of = "query"
          /\ encoded[1].input.kind = "geocode"
          /\ encoded[1].input.filter[1].variant = "ComponentFilter"
          /\ encoded[1].input.filter[1].components # <<>>

\* C23: encoding a ComponentFilterRule, or a set of them, terminates: the
\* calls between the rule's serializer and variant_name reach a result
\* after a bounded number of steps.
C23_RuleEncodingTerminates == EncodedRules => encoded[1].out.res # "abort"

\* The values handed to variant_name in the last application: the value
\* itself, the rule an encoder was applied to, the elements of the sets of
\* an encoded query.
ExtractorInputs ==
    IF encoded = None THEN {}
    ELSE IF encoded[1].of \in {"variant_name", "rule"} THEN {encoded[1].input}
    ELSE IF encoded[1].of = "set"
    THEN {encoded[1].input.set[i] : i \in 1..Len(encoded[1].input.set)}
    ELSE LET q == encoded[1].input
             Elements(opt) == IF opt = None THEN {}
                              ELSE {opt[1][i] : i \in 1..Len(opt[1])}
         IN  Elements(q.result_type) \cup Elements(q.location_type)
             \cup (IF q.filter = None THEN {}
                   ELSE {q.filter[1].components[i] :
                           i \in 1..Len(q.filter[1].components)})

\* C24: every value handed to variant_name while a query is encoded
\* presents itself to the extractor as a variant of a tagged type, so the
\* extractor's not-a-variant path, which aborts, is never reached.
C24_OnlyVariantsExtracted ==
    \A t \in ExtractorInputs : SerializerMethod(t) \in VariantMethods

(***************************************************************************)
(* Progress of a pipeline (SpecLive).                                      *)
(***************************************************************************)
\* C25: if the transport answers every GET or reports an error for it,
\* every started pipeline eventually reaches Resolved, and once resolved it
\* stays resolved with the same outcome: nothing cancels it or times it out.
C25_EventuallyResolved ==
    /\ \A p \in Pipes : (pc[p] = "built") ~> (pc[p] = "resolved")
    /\ [][\A p \in Pipes :
            pc[p] = "resolved" => pc'[p] = "resolved" /\ outcome'[p] = outcome[p]]_vars

\* Every pipeline was started and has resolved, one of them with the
\* transport's error.
C25_Witness ==
    /\ \A p \in Pipes : Resolved(p) /\ gets[p] = 1
    /\ \E p \in Pipes : outcome[p] = ResultErr("transport", "")
    /\ \E p \in Pipes : outcome[p].kind = "ok"

(***************************************************************************)
(* The setters' frame (SpecQuery).                                         *)
(***************************************************************************)
QueryFields ==
    {"kind", "filter", "bounds", "language", "region", "coordinates",
     "result_type", "location_type"}

\* C26: each builder setter changes only its own field: the locator or the
\* coordinate and the other optional fields are what they were, and no
\* setter clears or replaces the locator or the coordinate.
C26_SetterFrame ==
    [][(draft # None /\ draft' # None /\ Len(writes') = Len(writes) + 1) =>
          LET w == writes'[Len(writes')]
          IN  /\ draft'[1][w[1]] = Some(w[2])
              /\ \A g \in QueryFields \ {w[1]} : draft'[1][g] = draft[1][g]
              /\ draft'[1].kind = "geocode" => draft'[1].filter # None
              /\ draft'[1].kind = "degeocode" => draft'[1].coordinates # None]_vars

\* A GeocodeQuery holds its locator, a language and a region after three
\* setter calls, the last of them region.
C26_Witness ==
    /\ draft # None
    /\ draft[1].kind = "geocode"
    /\ Len(writes) = 3
    /\ writes[3][1] = "region"
    /\ draft[1].language # None
    /\ draft[1].filter # None

(***************************************************************************)
(* The wire catalogs.                                                      *)
(***************************************************************************)
\* C27: within each tagged type of wire tokens distinct cases have distinct
\* labels, so an encoded label identifies exactly one case; no two Region
\* cases share a token.
C27_LabelsIdentifyCase ==
    /\ (/\ encoded # None
        /\ encoded[1].of = "variant_name"
        /\ encoded[1].input.enum # "ComponentFilterRule") =>
          \A c \in DOMAIN LabelsOf(encoded[1].input.enum) :
              LabelsOf(encoded[1].input.enum)[c] = encoded[1].out.name
                  => c = encoded[1].input.case
    /\ (EncodedQuery /\ encoded[1].out.res = "ok" /\ encoded[1].input.region # None) =>
          \A c \in DOMAIN Region :
              Region[c] = ValueOf(encoded[1].out.pairs, "region")
                  => c = encoded[1].input.region[1]

\* A tag of a result of a body is outside its catalog.
UnknownTag(r) ==
    \/ ~HasLabel(LocationType, r.geometry.location_type)
    \/ \E i \in 1..Len(r.types) : ~HasLabel(Type, r.types[i])
    \/ \E k \in 1..Len(r.address_components) :
          \E i \in 1..Len(r.address_components[k].types) :
              ~HasLabel(Type, r.address_components[k].types[i])
OutsideCatalogs(b) ==
    /\ b.wellformed
    /\ \/ ~HasLabel(StatusCode, b.status)
       \/ \E i \in 1..Len(b.results) : UnknownTag(b.results[i])

\* C28: the catalogs are closed on decode: a body whose status, or a
\* location_type or type of one of its results, is outside the catalog
\* resolves the pipeline as a decode failure, never as a success without
\* the offending result and never as a classified status failure.
C28_CatalogsClosed ==
    \A p \in Pipes :
        (/\ pc[p] \in {"decoded", "resolved"}
         /\ body[p] # None
         /\ OutsideCatalogs(body[p][1])) =>
            /\ pc[p] = "resolved"
            /\ outcome[p] = ResultErr("decode", "")
            /\ reply[p] = None

\* A pipeline has resolved as a decode failure on a body with a failure
\* status whose second result has a type outside the catalog.
C28_Witness ==
    \E p \in Pipes :
        /\ Resolved(p)
        /\ body[p] # None
        /\ body[p][1].wellformed
        /\ body[p][1].status = "OVER_QUERY_LIMIT"
        /\ Len(body[p][1].results) = 2
        /\ ~UnknownTag(body[p][1].results[1])
        /\ UnknownTag(body[p][1].results[2])
        /\ outcome[p] = ResultErr("decode", "")

=============================================================================
